---- MODULE Spec2Model ----
(***************************************************************************)
(* Model of the KaaL seL4 wrapper, examples/my-kaal-system/wrapper/main.c. *)
(*                                                                         *)
(* main() fetches the seL4 boot-info pointer, prints a banner and a        *)
(* summary of three fields of the record, calls the Rust entry point       *)
(* kaal_main(info) and, if that call comes back, prints an error line and  *)
(* returns 1.  Every statement of main is one action; pc is the line of    *)
(* the next statement.  The bootstrap environment (the pointer it holds,   *)
(* the record's contents, the libc's %p rendering) and the behaviour of    *)
(* kaal_main (diverge or return) are the nondeterministic inputs.          *)
(***************************************************************************)
EXTENDS Integers, Sequences, FiniteSets, TLC

\* ---------------------------------------------------------------- bounds
\* Field values are sampled as multiples of WordStep: 0, 6, 12, 18 cover one
\* and two decimal digits, a hexadecimal letter digit and two hex digits.
WordStep == 6
MaxIdx == 3
\* Addresses at which the environment may have placed the record: 1..MaxAddr.
MaxAddr == 2
\* Cap on the invocation counter (never binding in main as written: it only
\* keeps the state space finite when a retry is introduced).
MaxCalls == 2

\* ------------------------------------------------------------- constants
\* The null pointer.
NULL == 0
\* "no value yet": info before line 16 has run, main's result before line 37.
NoValue == -1

Words == {k * WordStep : k \in 0..MaxIdx}
Addrs == 1..MaxAddr

\* seL4_SlotRegion: two seL4_SlotPos (seL4_Word) fields.
SlotRegion == [start : Words, end : Words]
\* The fields of seL4_BootInfo that main touches.
BootInfo == [ipcBuffer : Words, empty : SlotRegion, userImageFrames : SlotRegion]

\* What printf("%p") makes of a null pointer is implementation-defined:
\* "nil" renders it as (nil), "hex" renders every pointer as 0x<hex>.
PtrStyles == {"nil", "hex"}

VARIABLES
    pc,           \* line of main about to execute, or a final position
    envBootInfo,  \* pointer the bootstrap environment holds (NULL: no record)
    mem,          \* contents of the memory that pointer designates
    ptrStyle,     \* the libc's %p convention
    info,         \* main's local variable
    fetchedRec,   \* contents of the record when line 16 fetched the pointer
    loads,        \* number of loads done through info
    out,          \* lines written to stdout, each a sequence of tokens
    kaalCalls,    \* number of invocations of kaal_main
    kaalArg,      \* pointer passed to kaal_main
    kaalArgRec,   \* contents of the record at the moment of that call
    kaalReturned, \* kaal_main has returned to main
    retval        \* value main returned

vars == <<pc, envBootInfo, mem, ptrStyle, info, fetchedRec, loads, out,
          kaalCalls, kaalArg, kaalArgRec, kaalReturned, retval>>

\* ------------------------------------------------------------ formatting
DigitChars == <<"0", "1", "2", "3", "4", "5", "6", "7", "8", "9",
                "a", "b", "c", "d", "e", "f">>

RECURSIVE Digits(_, _)
\* The digits of n in the given base, most significant first.
Digits(n, base) ==
    IF n < base THEN <<DigitChars[n + 1]>>
    ELSE Digits(n \div base, base) \o <<DigitChars[(n % base) + 1]>>

\* %lu of (unsigned long)w.  seL4_Word and unsigned long have the same width
\* on every seL4 target, so the cast keeps the value.
FmtLu(w) == Digits(w, 10)

\* %p of (void*)w.
FmtP(w, style) ==
    IF w = NULL /\ style = "nil" THEN <<"(nil)">>
    ELSE <<"0x">> \o Digits(w, 16)

Rule == <<"===========================================\n">>

\* The literal lines of lines 18-22.
BannerText(l) ==
    CASE l = "L18" -> <<"\n">>
      [] l = "L19" -> Rule
      [] l = "L20" -> <<"  KaaL Root Task Starting\n">>
      [] l = "L21" -> Rule
      [] l = "L22" -> <<"  Boot Info:\n">>

BannerNext(l) ==
    CASE l = "L18" -> "L19"
      [] l = "L19" -> "L20"
      [] l = "L20" -> "L21"
      [] l = "L21" -> "L22"
      [] l = "L22" -> "L23"

IpcLine(r, style) ==
    <<"    IPC Buffer:      ">> \o FmtP(r.ipcBuffer, style) \o <<"\n">>

\* Mutant of EmptyLine: the two arguments of the printf in the wrong order.
EmptyLine_Swapped(r) ==
    <<"    Empty Slots:     [">> \o FmtLu(r.empty.end) \o <<"-">>
        \o FmtLu(r.empty.start) \o <<")\n">>

EmptyLine(r) ==
    <<"    Empty Slots:     [">> \o FmtLu(r.empty.start) \o <<"-">>
        \o FmtLu(r.empty.end) \o <<")\n">>

UserImageLine(r, style) ==
    <<"    User Image:      [">> \o FmtP(r.userImageFrames.start, style) \o <<"-">>
        \o FmtP(r.userImageFrames.end, style) \o <<")\n">>

FooterLine == <<"===========================================\n\n">>

ErrorLine == <<"ERROR: kaal_main returned!\n">>

\* ------------------------------------------------------------------ init
Init ==
    /\ pc = "L16"
    /\ envBootInfo \in {NULL} \cup Addrs
    /\ mem \in BootInfo
    /\ ptrStyle \in PtrStyles
    /\ info = NoValue
    /\ fetchedRec = mem
    /\ loads = 0
    /\ out = <<>>
    /\ kaalCalls = 0
    /\ kaalArg = NoValue
    /\ kaalArgRec = mem
    /\ kaalReturned = FALSE
    /\ retval = NoValue

\* --------------------------------------------------------------- actions
\* Line 16: seL4_BootInfo *info = platsupport_get_bootinfo();
GetBootInfo ==
    /\ pc = "L16"
    /\ info' = envBootInfo
    /\ fetchedRec' = mem
    /\ pc' = "L18"
    /\ UNCHANGED <<envBootInfo, mem, ptrStyle, loads, out, kaalCalls, kaalArg,
                   kaalArgRec, kaalReturned, retval>>

\* Lines 18-22: the five printf calls with literal text.
PrintBanner ==
    /\ pc \in {"L18", "L19", "L20", "L21", "L22"}
    /\ out' = Append(out, BannerText(pc))
    /\ pc' = BannerNext(pc)
    /\ UNCHANGED <<envBootInfo, mem, ptrStyle, info, fetchedRec, loads, kaalCalls,
                   kaalArg, kaalArgRec, kaalReturned, retval>>

\* A load through a null info is undefined: the thread takes a VM fault and
\* stops here, or (page mapped, load folded by the compiler) the load yields
\* whatever mem holds and main goes on (the Print actions below).
NullFault ==
    /\ pc \in {"L23", "L24", "L27"}
    /\ info = NULL
    /\ pc' = "Fault"
    /\ UNCHANGED <<envBootInfo, mem, ptrStyle, info, fetchedRec, loads, out,
                   kaalCalls, kaalArg, kaalArgRec, kaalReturned, retval>>

\* Line 23: printf("    IPC Buffer:      %p\n", (void*)info->ipcBuffer);
PrintIpcBuffer ==
    /\ pc = "L23"
    /\ out' = Append(out, IpcLine(mem, ptrStyle))
    /\ loads' = loads + 1
    /\ pc' = "L24"
    /\ UNCHANGED <<envBootInfo, mem, ptrStyle, info, fetchedRec, kaalCalls,
                   kaalArg, kaalArgRec, kaalReturned, retval>>

\* Mutant of PrintEmptySlots: the summary clamps an inverted range in place
\* (info->empty.start = info->empty.end) before printing it.
PrintEmptySlots_Clamping ==
    /\ pc = "L24"
    /\ mem' = IF mem.empty.start > mem.empty.end
              THEN [mem EXCEPT !.empty.start = mem.empty.end]
              ELSE mem
    /\ out' = Append(out, <<"    Empty Slots:     [">> \o FmtLu(mem'.empty.start)
                           \o <<"-">> \o FmtLu(mem'.empty.end) \o <<")\n">>)
    /\ loads' = loads + 2
    /\ pc' = "L27"
    /\ UNCHANGED <<envBootInfo, ptrStyle, info, fetchedRec, kaalCalls,
                   kaalArg, kaalArgRec, kaalReturned, retval>>

\* Lines 24-26: printf("    Empty Slots:     [%lu-%lu)\n", start, end);
PrintEmptySlots ==
    /\ pc = "L24"
    /\ out' = Append(out, EmptyLine(mem))
    /\ loads' = loads + 2
    /\ pc' = "L27"
    /\ UNCHANGED <<envBootInfo, mem, ptrStyle, info, fetchedRec, kaalCalls,
                   kaalArg, kaalArgRec, kaalReturned, retval>>

\* Lines 27-29: printf("    User Image:      [%p-%p)\n", start, end);
PrintUserImage ==
    /\ pc = "L27"
    /\ out' = Append(out, UserImageLine(mem, ptrStyle))
    /\ loads' = loads + 2
    /\ pc' = "L30"
    /\ UNCHANGED <<envBootInfo, mem, ptrStyle, info, fetchedRec, kaalCalls,
                   kaalArg, kaalArgRec, kaalReturned, retval>>

\* Line 30: the closing rule of the summary.
PrintFooter ==
    /\ pc = "L30"
    /\ out' = Append(out, FooterLine)
    /\ pc' = "L33"
    /\ UNCHANGED <<envBootInfo, mem, ptrStyle, info, fetchedRec, loads, kaalCalls,
                   kaalArg, kaalArgRec, kaalReturned, retval>>

\* Mutant of CallKaalMain: the call is skipped when the empty range is empty
\* (a guard start < end in place of no guard).
CallKaalMain_Guarded ==
    /\ pc = "L33"
    /\ kaalCalls < MaxCalls
    /\ IF mem.empty.start < mem.empty.end
       THEN /\ kaalCalls' = kaalCalls + 1
            /\ kaalArg' = info
            /\ kaalArgRec' = mem
            /\ pc' = "InKaal"
            /\ UNCHANGED kaalReturned
       ELSE /\ pc' = "L36"
            /\ kaalReturned' = TRUE
            /\ UNCHANGED <<kaalCalls, kaalArg, kaalArgRec>>
    /\ UNCHANGED <<envBootInfo, mem, ptrStyle, info, fetchedRec, loads, out, retval>>

\* Line 33: kaal_main(info); control enters the Rust runtime.
CallKaalMain ==
    /\ pc = "L33"
    /\ kaalCalls < MaxCalls
    /\ kaalCalls' = kaalCalls + 1
    /\ kaalArg' = info
    /\ kaalArgRec' = mem
    /\ pc' = "InKaal"
    /\ UNCHANGED <<envBootInfo, mem, ptrStyle, info, fetchedRec, loads, out,
                   kaalReturned, retval>>

\* kaal_main honours its contract: control never comes back.
KaalMainDiverges ==
    /\ pc = "InKaal"
    /\ pc' = "Transferred"
    /\ UNCHANGED <<envBootInfo, mem, ptrStyle, info, fetchedRec, loads, out,
                   kaalCalls, kaalArg, kaalArgRec, kaalReturned, retval>>

\* kaal_main returns to line 36.
KaalMainReturns ==
    /\ pc = "InKaal"
    /\ kaalReturned' = TRUE
    /\ pc' = "L36"
    /\ UNCHANGED <<envBootInfo, mem, ptrStyle, info, fetchedRec, loads, out,
                   kaalCalls, kaalArg, kaalArgRec, retval>>

\* Mutant of PrintError: after the error line the runtime is started again.
PrintError_Retry ==
    /\ pc = "L36"
    /\ out' = Append(out, ErrorLine)
    /\ pc' = "L33"
    /\ UNCHANGED <<envBootInfo, mem, ptrStyle, info, fetchedRec, loads, kaalCalls,
                   kaalArg, kaalArgRec, kaalReturned, retval>>

\* Line 36: printf("ERROR: kaal_main returned!\n");
PrintError ==
    /\ pc = "L36"
    /\ out' = Append(out, ErrorLine)
    /\ pc' = "L37"
    /\ UNCHANGED <<envBootInfo, mem, ptrStyle, info, fetchedRec, loads, kaalCalls,
                   kaalArg, kaalArgRec, kaalReturned, retval>>

\* Mutant of ReturnFromMain: return 0.
ReturnFromMain_Zero ==
    /\ pc = "L37"
    /\ retval' = 0
    /\ pc' = "Exited"
    /\ UNCHANGED <<envBootInfo, mem, ptrStyle, info, fetchedRec, loads, out,
                   kaalCalls, kaalArg, kaalArgRec, kaalReturned>>

\* Line 37: return 1;
ReturnFromMain ==
    /\ pc = "L37"
    /\ retval' = 1
    /\ pc' = "Exited"
    /\ UNCHANGED <<envBootInfo, mem, ptrStyle, info, fetchedRec, loads, out,
                   kaalCalls, kaalArg, kaalArgRec, kaalReturned>>

Next ==
    \/ GetBootInfo
    \/ PrintBanner
    \/ NullFault
    \/ PrintIpcBuffer
    \/ PrintEmptySlots
    \/ PrintUserImage
    \/ PrintFooter
    \/ CallKaalMain
    \/ KaalMainDiverges
    \/ KaalMainReturns
    \/ PrintError
    \/ ReturnFromMain

Spec == Init /\ [][Next]_vars

TypeOK ==
    /\ pc \in {"L16", "L18", "L19", "L20", "L21", "L22", "L23", "L24", "L27", "L30",
               "L33", "InKaal", "Transferred", "L36", "L37", "Exited", "Fault"}
    /\ envBootInfo \in {NULL} \cup Addrs
    /\ mem \in BootInfo
    /\ ptrStyle \in PtrStyles
    /\ info \in {NoValue, NULL} \cup Addrs
    /\ fetchedRec \in BootInfo
    /\ loads \in 0..5
    /\ Len(out) <= 10
    /\ kaalCalls \in 0..MaxCalls
    /\ kaalArg \in {NoValue, NULL} \cup Addrs
    /\ kaalArgRec \in BootInfo
    /\ kaalReturned \in BOOLEAN
    /\ retval \in {NoValue, 0, 1}

\* ------------------------------------------------- vocabulary of the claims
\* Both range invariants of the record: start <= end.
WellFormed(r) ==
    /\ r.empty.start <= r.empty.end
    /\ r.userImageFrames.start <= r.userImageFrames.end

\* main has stopped for good: no statement is left to run.
Stopped == ~ENABLED Next

\* Stopped without handing over and without returning to the caller.
Halted == Stopped /\ pc # "Transferred" /\ retval = NoValue

\* Number of lines main has written once the summary is complete.
SummaryLen == 9
\* Index in out of the first line built from the record.
FirstFieldLine == 6

DecChars == {DigitChars[i] : i \in 1..10}
HexChars == {DigitChars[i] : i \in 1..16}
DigitValue(c) == (CHOOSE i \in 1..16 : DigitChars[i] = c) - 1

RECURSIVE ParseDigits(_, _)
\* The number a non-empty digit sequence denotes in the given base.
ParseDigits(s, base) ==
    IF Len(s) = 1 THEN DigitValue(s[1])
    ELSE ParseDigits(SubSeq(s, 1, Len(s) - 1), base) * base + DigitValue(s[Len(s)])

\* s is an unsigned decimal numeral denoting v.
ReadsAsDecimal(s, v) ==
    /\ Len(s) >= 1
    /\ \A i \in 1..Len(s) : s[i] \in DecChars
    /\ ParseDigits(s, 10) = v

\* s is a pointer rendering denoting v: (nil) for 0, or 0x and hex digits.
ReadsAsPointer(s, v) ==
    \/ s = <<"(nil)">> /\ v = 0
    \/ /\ Len(s) >= 2
       /\ s[1] = "0x"
       /\ \A i \in 2..Len(s) : s[i] \in HexChars
       /\ ParseDigits(SubSeq(s, 2, Len(s)), 16) = v

\* line is  <label ending in "[">  START  "-"  END  ")\n"  for some numerals
\* START and END; Lo(line) and Hi(line) are those numerals.
IsInterval(line, label) ==
    /\ Len(line) >= 5
    /\ line[1] = label
    /\ line[Len(line)] = ")\n"
    /\ Cardinality({i \in 1..Len(line) : line[i] = "-"}) = 1
DashAt(line) == CHOOSE i \in 1..Len(line) : line[i] = "-"
Lo(line) == SubSeq(line, 2, DashAt(line) - 1)
Hi(line) == SubSeq(line, DashAt(line) + 1, Len(line) - 1)

\* ------------------------------------------------------------------ C1
\* C1: for every record that is present and whose two ranges are well formed,
\* one execution of main invokes kaal_main exactly once: never more than once,
\* exactly once from the call on, and main cannot stop with zero invocations.
C1_ExactlyOnce ==
    (envBootInfo # NULL /\ WellFormed(mem)) =>
        /\ kaalCalls <= 1
        /\ (pc \in {"InKaal", "Transferred", "L36", "L37", "Exited"} => kaalCalls = 1)
        /\ (Stopped => kaalCalls = 1)

C1_Witness ==
    /\ envBootInfo # NULL
    /\ WellFormed(mem)
    /\ mem.empty.start < mem.empty.end
    /\ pc = "Transferred"
    /\ kaalCalls = 1

\* ------------------------------------------------------------------ C2
\* C2: for every fetched record that violates a range invariant, kaal_main is
\* never invoked and main ends halted (it neither transfers nor returns).
C2_MalformedNeverTransfers ==
    (pc # "L16" /\ info # NULL /\ ~WellFormed(fetchedRec)) =>
        /\ kaalCalls = 0
        /\ pc # "Transferred"
        /\ retval = NoValue

\* ------------------------------------------------------------------ C3
\* C3: once kaal_main has returned, main stays halted: it never returns to its
\* caller and never produces an exit code.
C3_ReturnHalts ==
    kaalReturned => (pc # "Exited" /\ retval = NoValue)

\* ------------------------------------------------------------------ C4
\* C4: when the accessor yields no record (null), main loads no field through
\* the pointer, writes no line built from the record, never invokes kaal_main
\* and does not fault or return: it halts on a BootInfoUnavailable failure.
C4_UnavailableIsFatal ==
    (pc # "L16" /\ info = NULL) =>
        /\ loads = 0
        /\ Len(out) < FirstFieldLine
        /\ kaalCalls = 0
        /\ pc # "Fault"
        /\ retval = NoValue

\* ------------------------------------------------------------------ C5
\* C5: the pointer passed to kaal_main is the pointer the accessor returned,
\* and at the moment of the call every field of the record has the value it
\* had when it was fetched; no statement of main writes to the record.
C5_RecordIntact ==
    /\ (pc # "L16" => mem = fetchedRec)
    /\ (kaalCalls > 0 =>
            /\ kaalArg = info
            /\ info = envBootInfo
            /\ kaalArgRec = fetchedRec)

C5_Witness ==
    /\ kaalCalls = 1
    /\ pc = "InKaal"
    /\ kaalArg \in Addrs
    /\ kaalArgRec.empty.start > kaalArgRec.empty.end

\* ------------------------------------------------------------------ C6
\* C6: whenever lines of the summary of a fetched record have been written,
\* the IPC line reads as the record's ipcBuffer, and the empty-slot and
\* user-image lines are intervals "[start-end)" whose first numeral reads as
\* the range's start and whose second reads as its end.
C6_SummaryShowsRecord ==
    info \in Addrs =>
        /\ (Len(out) >= 6 =>
                /\ Len(out[6]) >= 3
                /\ out[6][1] = "    IPC Buffer:      "
                /\ out[6][Len(out[6])] = "\n"
                /\ ReadsAsPointer(SubSeq(out[6], 2, Len(out[6]) - 1),
                                  fetchedRec.ipcBuffer))
        /\ (Len(out) >= 7 =>
                /\ IsInterval(out[7], "    Empty Slots:     [")
                /\ ReadsAsDecimal(Lo(out[7]), fetchedRec.empty.start)
                /\ ReadsAsDecimal(Hi(out[7]), fetchedRec.empty.end))
        /\ (Len(out) >= 8 =>
                /\ IsInterval(out[8], "    User Image:      [")
                /\ ReadsAsPointer(Lo(out[8]), fetchedRec.userImageFrames.start)
                /\ ReadsAsPointer(Hi(out[8]), fetchedRec.userImageFrames.end))

C6_Witness ==
    /\ info \in Addrs
    /\ Len(out) >= SummaryLen
    /\ fetchedRec.ipcBuffer >= 16
    /\ 10 <= fetchedRec.empty.start
    /\ fetchedRec.empty.start < fetchedRec.empty.end
    /\ fetchedRec.userImageFrames.start = 0
    /\ fetchedRec.userImageFrames.end >= 10

\* ------------------------------------------------------------------ C7
\* C7: kaal_main is invoked at most once in every execution, and once it has
\* returned no step invokes it again.
C7_NeverReentered ==
    /\ [](kaalCalls <= 1)
    /\ [][kaalReturned => kaalCalls' = kaalCalls]_vars

C7_Witness ==
    /\ kaalReturned
    /\ kaalCalls = 1
    /\ pc = "Exited"

\* ------------------------------------------------------------------ C8
\* The lines of main that identify a failure kind.  Only the line of line 36
\* does; no format string of main names the other two kinds.
Diagnostic(kind) ==
    IF kind = "UnexpectedReturn" THEN {ErrorLine} ELSE {}

\* The failure kinds that have occurred in the current state.
Failures ==
    {k \in {"BootInfoUnavailable", "MalformedBootInfo", "UnexpectedReturn"} :
        \/ k = "BootInfoUnavailable" /\ pc # "L16" /\ info = NULL
        \/ k = "MalformedBootInfo" /\ pc # "L16" /\ info # NULL
                                   /\ ~WellFormed(fetchedRec)
        \/ k = "UnexpectedReturn" /\ kaalReturned}

\* C8: when main has stopped after a failure of any of the three kinds, a line
\* identifying that kind has been written and main is halted (it has neither
\* handed over to the runtime nor returned to its caller).
C8_FailuresHalt ==
    Stopped =>
        \A k \in Failures :
            /\ \E i \in 1..Len(out) : out[i] \in Diagnostic(k)
            /\ Halted

\* ------------------------------------------------------------------ C9
\* C9: main follows the stated machine: a line of the summary is written only
\* for a record that passed validation, kaal_main is invoked only after the
\* summary is complete, and the final states are absorbing: after kaal_main
\* has returned main never goes on to return to its caller.
C9_StateMachine ==
    /\ (info # NULL /\ Len(out) >= FirstFieldLine => WellFormed(fetchedRec))
    /\ (kaalCalls > 0 => Len(out) >= SummaryLen)
    /\ (pc = "Transferred" => Stopped)
    /\ (kaalReturned /\ ErrorLine \in {out[i] : i \in 1..Len(out)} => Stopped)

\* ------------------------------------------------------------------ C10
\* C10: main returns only after kaal_main was invoked and returned and the
\* error line was written last, and the value returned is 1, never 0; while
\* kaal_main has not returned, main has not returned and nothing follows the
\* summary's closing line.
C10_ReturnsOnlyOne ==
    /\ retval \in {NoValue, 1}
    /\ (pc = "Exited" <=> retval # NoValue)
    /\ (retval # NoValue =>
            /\ kaalCalls = 1
            /\ kaalReturned
            /\ Len(out) = SummaryLen + 1
            /\ out[Len(out)] = ErrorLine)
    /\ (kaalCalls > 0 /\ ~kaalReturned =>
            /\ retval = NoValue
            /\ Len(out) = SummaryLen
            /\ out[Len(out)] = FooterLine)

C10_Witness ==
    /\ pc = "Exited"
    /\ retval = 1
    /\ kaalReturned
====
